---- MODULE Spec2Model ----
(***************************************************************************)
(* Request orchestration of lama_cleaner/server.py: the /inpaint,          *)
(* /run_plugin and POST /model handlers, the model manager they share and  *)
(* the per-request locals of each handler thread.                          *)
(***************************************************************************)
EXTENDS Integers, Sequences, FiniteSets, TLC

VARIABLES
    global_config,   \* GlobalConfig: disable_model_switch, plugins (fixed by start())
    is_mac,          \* helper.is_mac(): the platform the server runs on
    model_manager,   \* global_config.model_manager: name, current_model, model
    th,              \* per handler thread: position and locals of the request it serves
    last_switch      \* outcome of the last completed POST /model (observation)

vars == <<global_config, is_mac, model_manager, th, last_switch>>

\* ------------------------------------------------------------------ bounds

NumThreads == 2
MaxDim == 4
MaxMsgLen == 2
MaxSteps == 2
MaxPathLen == 2

\* random.randint(1, 99999999)
RandLo == 1
ImageQuality == 95
RandHi == 99999999

Threads == 1..NumThreads

\* ------------------------------------------------------------- small helpers

Max2(a, b) == IF a >= b THEN a ELSE b

Min2(a, b) == IF a <= b THEN a ELSE b

RECURSIVE SeqMax(_)
SeqMax(s) == IF Len(s) = 1 THEN s[1] ELSE Max2(s[1], SeqMax(Tail(s)))

RECURSIVE SeqMin(_)
SeqMin(s) == IF Len(s) = 1 THEN s[1] ELSE Min2(s[1], SeqMin(Tail(s)))

\* shape[:2]
Shape2(shape) == SubSeq(shape, 1, 2)

\* Python's `needle in s` on strings, here on token sequences.
Contains(needle, s) ==
    \E i \in 1..(Len(s) - Len(needle) + 1) :
        SubSeq(s, i, i + Len(needle) - 1) = needle

\* ------------------------------------------------------------------ values

NoExc == [cls |-> "none", msg |-> <<>>]

NoResp == [status |-> 0, body |-> <<>>, mime |-> <<>>, seed |-> <<>>, shape |-> <<>>]

NoModel == [name |-> "none", built |-> FALSE]

NoMM == [name |-> "none", current_model |-> "none", model |-> NoModel]

NoArg == [image |-> <<>>, mask |-> <<>>, seed |-> 0]

\* alpha_channel is None
NoAlpha == [shape |-> <<>>, resized |-> FALSE]

\* no pixel buffer
NoBuf == [shape |-> <<>>, alpha |-> NoAlpha]

\* no call of an encoder
NoEnc == [via |-> "none", buf |-> NoBuf, ext |-> "none", quality |-> 0, infos |-> "none"]

\* a pathlib path: absolute or not, and its components; output_dir is None
NoPath == [abs |-> FALSE, parts |-> <<>>]

Blank ==
    [pc |-> "idle", kind |-> "none",
     image |-> <<>>, mask |-> <<>>, original_shape |-> <<>>, size_limit |-> 0,
     seed_raw |-> <<>>, seed_in |-> 0, sd_seed |-> 0,
     arg |-> NoArg, backend |-> NoModel, res |-> <<>>,
     name |-> "none", new |-> NoModel, before |-> NoMM,
     exc |-> NoExc, escaped |-> FALSE, resp |-> NoResp,
     invoked |-> 0, gc |-> 0, empty_cache |-> 0,
     what |-> "None", alpha |-> NoAlpha, infos |-> "none",
     upload |-> [alpha |-> NoAlpha, infos |-> "none"],
     composed |-> NoBuf, enc |-> NoEnc, events |-> <<>>,
     filename |-> NoPath, wrote |-> NoPath]

TextResp(body, status) ==
    [status |-> status, body |-> body, mime |-> <<"text/html">>, seed |-> <<>>,
     shape |-> <<>>]

\* ------------------------------------------------------------------ inputs

Dims == {2, MaxDim}

\* image.shape of a decoded RGB upload: (height, width, 3)
ImageShapes == {<<h, w, 3>> : h \in Dims, w \in Dims}

\* mask.shape of a decoded gray mask: (height, width)
MaskShapes == {<<h, w>> : h \in Dims, w \in Dims}

\* form["sdSeed"]: the raw text of the field
SeedInputs ==
    {<<"-", "1">>, <<"-", "0", "1">>, <<"4", "2">>, <<"1">>, <<"-", "1", "0">>,
     <<"9", "9", "9", "9", "9", "9", "9", "9">>, <<"x">>}

\* values random.randint(RandLo, RandHi) may return
RandSample == {RandLo, 31337, RandHi}

Tokens == {"CUDA out of memory", ". ", "Invalid buffer size", "Out of memory", "boom"}

Msgs == UNION {[1..n -> Tokens] : n \in 0..MaxMsgLen}

ExcClasses == {"RuntimeError", "OutOfMemoryError", "ValueError"}

\* torch.cuda.OutOfMemoryError derives from RuntimeError
IsRuntimeError(cls) == cls \in {"RuntimeError", "OutOfMemoryError"}

\* what a backend or plugin call can do: return a buffer scale times the size of
\* its input, or raise
Outcomes ==
    {[kind |-> "ok", scale |-> k, exc |-> NoExc] : k \in {1, 2}}
    \cup {[kind |-> "raise", scale |-> 1, exc |-> [cls |-> c, msg |-> m]] :
            c \in ExcClasses, m \in Msgs}

ModelNames == {"lama", "sd15"}

PluginNames == {"InteractiveSeg", "RemoveBG", "AnimeSeg", "RealESRGAN"}

\* imghdr.what("", img_bytes) of an upload: a format name or None
Sniffs == {"png", "webp", "None"}

\* the infos load_img(..., return_info=True) extracts from an upload
Infos == {"exif", "icc"}

PathTokens == {"a", ".."}

\* request.form["filename"] as pathlib reads it
Filenames ==
    {[abs |-> b, parts |-> p] :
        b \in BOOLEAN, p \in UNION {[1..n -> PathTokens] : n \in 0..MaxPathLen}}

FullIn ==
    [images |-> ImageShapes, masks |-> MaskShapes, seeds |-> SeedInputs,
     rands |-> RandSample, outcomes |-> Outcomes,
     pnames |-> PluginNames \cup {"nosuch"},
     mnames |-> ModelNames \cup {"badmodel"},
     alphas |-> {TRUE}, whats |-> {"png"}, infos |-> {"exif"}, steps |-> 0,
     filenames |-> {[abs |-> FALSE, parts |-> <<"a">>]}]

\* load_img(origin_image_bytes, return_info=True): the alpha channel of an
\* upload that has one is as large as its image
DecodedAlpha(image, has_alpha) ==
    IF has_alpha THEN [shape |-> Shape2(image), resized |-> FALSE] ELSE NoAlpha

\* --------------------------------------------------- Config(sd_seed=form[..])

IsDigit(c) == c \in {"0", "1", "2", "3", "4", "5", "6", "7", "8", "9"}

DigitVal(c) ==
    CASE c = "0" -> 0 [] c = "1" -> 1 [] c = "2" -> 2 [] c = "3" -> 3
      [] c = "4" -> 4 [] c = "5" -> 5 [] c = "6" -> 6 [] c = "7" -> 7
      [] c = "8" -> 8 [] c = "9" -> 9

RECURSIVE DigitsVal(_)
DigitsVal(s) ==
    IF s = <<>> THEN 0
    ELSE DigitsVal(SubSeq(s, 1, Len(s) - 1)) * 10 + DigitVal(s[Len(s)])

AllDigits(s) == s # <<>> /\ \A i \in 1..Len(s) : IsDigit(s[i])

ValidInt(s) == s # <<>> /\ IF s[1] = "-" THEN AllDigits(Tail(s)) ELSE AllDigits(s)

ParseInt(s) == IF s[1] = "-" THEN 0 - DigitsVal(Tail(s)) ELSE DigitsVal(s)

\* ------------------------------------------------------------ /inpaint parts

\* faulty variant: only the heights are compared
ShapeMismatchHeightOnly(image, mask) == image[1] # mask[1]

\* image.shape[:2] != mask.shape[:2]
ShapeMismatch(image, mask) == Shape2(image) # Shape2(mask)

ShapeMismatchResp(image, mask) ==
    TextResp(<<"Mask shape", ToString(Shape2(mask)),
               " not queal to Image shape", ToString(Shape2(image))>>, 400)

\* faulty variant: the smallest entry of the shape is taken
SizeLimitMin(image) == SeqMin(image)

\* size_limit = max(image.shape)
SizeLimit(image) == SeqMax(image)

\* faulty variant: the sentinel is compared with the unparsed field, which never equals -1
ResolveSeedUnparsed(seed, rnd) == seed

\* if config.sd_seed == -1: config.sd_seed = random.randint(1, 99999999)
ResolveSeed(seed, rnd) == IF seed = -1 THEN rnd ELSE seed

\* helper.resize_max_size: unchanged when max(h, w) <= limit, else scaled so the
\* longer side equals the limit
ResizeMaxSize(shape, limit) ==
    LET h == shape[1]
        w == shape[2]
        long == Max2(h, w)
        scaled(x) == Max2(1, (2 * x * limit + long) \div (2 * long))
    IN  IF long > limit
        THEN <<scaled(h), scaled(w)>> \o SubSeq(shape, 3, Len(shape))
        ELSE shape

\* what the backend returns for an input of this shape (BGR, 3 channels)
BackendResult(image, scale) == <<image[1] * scale, image[2] * scale, 3>>

\* a handler returns: its locals are gone, the response and what was observed
\* of the request stay
Returned(t, resp) ==
    [Blank EXCEPT !.pc = "done", !.kind = t.kind, !.name = t.name,
                  !.before = t.before, !.exc = t.exc, !.escaped = t.escaped,
                  !.invoked = t.invoked, !.gc = t.gc,
                  !.empty_cache = t.empty_cache, !.events = t.events,
                  !.resp = resp]

\* an exception leaves the handler uncaught
Escaped(t, e) == Returned([t EXCEPT !.exc = e, !.escaped = TRUE], NoResp)

\* the except clause of process(): RuntimeError only
ProcessExcept(e, mac) ==
    IF Contains(<<"CUDA out of memory", ". ">>, e.msg)
    THEN TextResp(<<"CUDA out of memory">>, 500)
    ELSE IF Contains(<<"Invalid buffer size">>, e.msg) /\ mac
    THEN TextResp(<<"Out of memory">>, 500)
    ELSE TextResp(e.msg, 500)

\* finally: logger.info(...); torch_gc()
ProcessFinally(t) == [t EXCEPT !.gc = @ + 1]

\* faulty variant: torch_gc() after the try statement instead of in its finally clause
ProcessTryNoFinally(t, out, mac) ==
    IF out.kind = "ok"
    THEN [ProcessFinally(t) EXCEPT !.pc = "inferred",
                                   !.res = BackendResult(t.arg.image, out.scale)]
    ELSE IF IsRuntimeError(out.exc.cls)
    THEN Returned([t EXCEPT !.exc = out.exc], ProcessExcept(out.exc, mac))
    ELSE Escaped(t, out.exc)

\* try: res_np_img = model_manager(image, mask, config) except ... finally ...
\* faulty variant: a failed call is made once more
ProcessTryRetry(t, out, mac) ==
    LET f == ProcessFinally(t)
    IN  IF out.kind = "ok"
        THEN [f EXCEPT !.pc = "inferred",
                       !.res = BackendResult(t.arg.image, out.scale)]
        ELSE IF t.invoked < 2
        THEN [f EXCEPT !.pc = "normalized"]
        ELSE IF IsRuntimeError(out.exc.cls)
        THEN Returned([f EXCEPT !.exc = out.exc], ProcessExcept(out.exc, mac))
        ELSE Escaped(f, out.exc)

\* faulty variant: a RuntimeError is recorded and the handler carries on with
\* the buffer it sent
ProcessTrySwallow(t, out, mac) ==
    LET f == ProcessFinally(t)
    IN  IF out.kind = "ok"
        THEN [f EXCEPT !.pc = "inferred",
                       !.res = BackendResult(t.arg.image, out.scale)]
        ELSE IF IsRuntimeError(out.exc.cls)
        THEN [f EXCEPT !.pc = "inferred", !.exc = out.exc, !.res = t.arg.image]
        ELSE Escaped(f, out.exc)

ProcessTry(t, out, mac) ==
    LET f == ProcessFinally(t)
    IN  IF out.kind = "ok"
        THEN [f EXCEPT !.pc = "inferred",
                       !.res = BackendResult(t.arg.image, out.scale)]
        ELSE IF IsRuntimeError(out.exc.cls)
        THEN Returned([f EXCEPT !.exc = out.exc], ProcessExcept(out.exc, mac))
        ELSE Escaped(f, out.exc)

\* str(n) of an integer, as its characters
DigitChar(d) ==
    CASE d = 0 -> "0" [] d = 1 -> "1" [] d = 2 -> "2" [] d = 3 -> "3"
      [] d = 4 -> "4" [] d = 5 -> "5" [] d = 6 -> "6" [] d = 7 -> "7"
      [] d = 8 -> "8" [] d = 9 -> "9"

RECURSIVE NatStr(_)
NatStr(n) == IF n < 10 THEN <<DigitChar(n)>> ELSE NatStr(n \div 10) \o <<DigitChar(n % 10)>>

IntStr(n) == IF n < 0 THEN <<"-">> \o NatStr(0 - n) ELSE NatStr(n)

\* response.headers["X-Seed"] = str(config.sd_seed)
XSeed(t) == IntStr(t.sd_seed)

\* get_image_ext
\* faulty variant: no fallback when sniffing finds nothing
GetImageExtNoFallback(what) == what

GetImageExt(what) == IF what = "None" THEN "jpeg" ELSE what

\* faulty variant: the alpha channel is concatenated at its decoded size
ComposeUnresized(res, alpha) ==
    IF alpha = NoAlpha
    THEN [shape |-> res, alpha |-> NoAlpha]
    ELSE [shape |-> <<res[1], res[2], res[3] + 1>>, alpha |-> alpha]

\* lines 324-331 (and 156-161, 403-410): the alpha channel, resized to the
\* buffer when their sizes differ, becomes the buffer's last channel
Compose(res, alpha) ==
    IF alpha = NoAlpha
    THEN [shape |-> res, alpha |-> NoAlpha]
    ELSE [shape |-> <<res[1], res[2], res[3] + 1>>,
          alpha |-> IF alpha.shape # Shape2(res)
                    THEN [shape |-> Shape2(res), resized |-> TRUE]
                    ELSE alpha]

\* pil_to_bytes(Image.fromarray(buf), ext, quality=..., infos=...)
PilToBytes(buf, ext, quality, infos) ==
    [via |-> "pil_to_bytes", buf |-> buf, ext |-> ext, quality |-> quality,
     infos |-> infos]

\* numpy_to_bytes(buf, ext)
NumpyToBytes(buf, ext) ==
    [via |-> "numpy_to_bytes", buf |-> buf, ext |-> ext, quality |-> 0,
     infos |-> "none"]

\* faulty variant: the metadata is not handed to the encoder
ProcessEncodeNoInfos(t, quality) ==
    PilToBytes(t.composed, GetImageExt(t.what), quality, "none")

\* lines 333-342
ProcessEncode(t, quality) ==
    PilToBytes(t.composed, GetImageExt(t.what), quality, t.infos)

\* send_file(..., mimetype=f"image/{ext}")
ImageResp(enc, seed) ==
    [status |-> 200, body |-> <<"image">>, mime |-> <<"image/", enc.ext>>,
     seed |-> seed, shape |-> enc.buf.shape]

\* lines 344-351
ProcessResponse(t) == ImageResp(t.enc, XSeed(t))

\* diffuser_callback: socketio.emit("diffusion_progress", {"step": i}), for the
\* first n steps of an inference
Progress(n) == [i \in 1..n |-> [ev |-> "diffusion_progress", step |-> i - 1]]

\* faulty variant: the completion marker overtakes the step events
EmitFinishFirst(events) == <<[ev |-> "diffusion_finish", step |-> 0]>> \o events

\* line 353: socketio.emit("diffusion_finish")
EmitFinish(events) == Append(events, [ev |-> "diffusion_finish", step |-> 0])

\* ---------------------------------------------------------- /run_plugin parts

\* except RuntimeError as e: after torch.cuda.empty_cache()
RunPluginExcept(e) ==
    IF Contains(<<"CUDA out of memory", ". ">>, e.msg)
    THEN TextResp(<<"CUDA out of memory">>, 500)
    ELSE TextResp(<<"Internal Server Error">>, 500)

\* try: bgr_res = plugins[name](...) except RuntimeError ...; then torch_gc()
RunPluginTry(t, out) ==
    IF out.kind = "ok"
    THEN [t EXCEPT !.pc = "p_inferred", !.gc = @ + 1,
                   !.res = BackendResult(t.image, out.scale)]
    ELSE IF IsRuntimeError(out.exc.cls)
    THEN Returned([t EXCEPT !.exc = out.exc, !.empty_cache = @ + 1],
                  RunPluginExcept(out.exc))
    ELSE Escaped(t, out.exc)

\* faulty variant: the lookup is skipped
PluginMissingNever(name, plugins) == FALSE

\* if name not in global_config.plugins
PluginMissing(name, plugins) == name \notin plugins

\* faulty variant: no plugin output gets the alpha channel
RunPluginBufferBare(name, res, alpha) == [shape |-> res, alpha |-> NoAlpha]

\* lines 397-410: the outputs of RemoveBG and AnimeSeg are taken as they are,
\* every other output gets the upload's alpha channel
RunPluginBuffer(name, res, alpha) ==
    IF name \in {"RemoveBG", "AnimeSeg"}
    THEN [shape |-> res, alpha |-> NoAlpha]
    ELSE Compose(res, alpha)

\* lines 397-402
RunPluginExt(name, what) ==
    IF name \in {"RemoveBG", "AnimeSeg"} THEN "png" ELSE GetImageExt(what)

\* lines 389-421: the encoder call of each branch
RunPluginEncode(t, quality) ==
    IF t.name = "InteractiveSeg"
    THEN NumpyToBytes([shape |-> t.res, alpha |-> NoAlpha], "png")
    ELSE PilToBytes(RunPluginBuffer(t.name, t.res, t.alpha),
                    RunPluginExt(t.name, t.what), quality, t.infos)

\* lines 390-395 and 412-425
RunPluginResponse(t) == ImageResp(t.enc, <<>>)

\* ---------------------------------------------------------- /save_image parts

OutDir == [abs |-> TRUE, parts |-> <<"out">>]

\* if global_config.output_dir is None
SaveDisabled(cfg) == cfg.output_dir = NoPath

\* output_dir / filename: an absolute right operand replaces the left one
Join(dir, f) ==
    IF f.abs THEN f ELSE [abs |-> dir.abs, parts |-> dir.parts \o f.parts]

\* the last component with its suffix replaced by .png
Suffixed(name) ==
    CASE name = "a" -> "a.png"
      [] name = ".." -> "...png"
      [] name = "out" -> "out.png"

\* Path.with_suffix(".png")
WithSuffix(path) == [path EXCEPT !.parts[Len(path.parts)] = Suffixed(@)]

\* the directory entries open() walks: ".." steps to the parent
RECURSIVE Walk(_, _)
Walk(at, parts) ==
    IF parts = <<>> THEN at
    ELSE IF parts[1] = ".."
    THEN Walk(IF at = <<>> THEN at ELSE SubSeq(at, 1, Len(at) - 1), Tail(parts))
    ELSE Walk(Append(at, parts[1]), Tail(parts))

\* the file open(save_path, "wb") creates
Opened(path) == [abs |-> path.abs, parts |-> Walk(<<>>, path.parts)]

\* save_image(), lines 148-177, with an output directory
SaveImageBody(t, cfg, ok) ==
    LET joined == Join(cfg.output_dir, t.filename)
    IN  IF joined.parts = <<>>
        THEN Escaped(t, [cls |-> "ValueError", msg |-> <<"empty name">>])
        ELSE LET save_path == WithSuffix(joined)
                 rgba == [Compose(t.image, t.alpha) EXCEPT !.shape[3] = 4]
                 enc == PilToBytes(rgba, "png", cfg.image_quality, t.infos)
                 u == [t EXCEPT !.pc = "done", !.composed = rgba, !.enc = enc]
             IN  IF ok
                 THEN [u EXCEPT !.wrote = Opened(save_path),
                                !.resp = TextResp(<<"ok">>, 200)]
                 ELSE [u EXCEPT !.resp = TextResp(<<"Save image failed: ",
                                                    "traceback">>, 500)]

\* ---------------------------------------------------------- POST /model parts

\* faulty variant: the flag is not consulted
SwitchDisabledIgnored(cfg) == FALSE

\* if global_config.disable_model_switch: return "Switch model is disabled", 400
SwitchDisabled(cfg) == cfg.disable_model_switch

\* GET /model
CurrentModelResp(mm) == TextResp(<<mm.current_model>>, 200)

\* faulty variant: the replacement is published before it is constructed
SwitchConstructingPublished(mm, new) ==
    [name |-> new.name, current_model |-> new.name, model |-> new]

\* ModelManager.switch, while the replacement is being constructed: the active
\* backend stays published
SwitchConstructing(mm, new) == mm

\* ModelManager.switch, the replacement fully constructed: publish it
SwitchPublished(mm, new) ==
    [name |-> new.name, current_model |-> new.name, model |-> new]

\* faulty variant: the old backend was released before the replacement was constructed
SwitchFailedReleased(mm, before) == [mm EXCEPT !.model = NoModel]

\* ModelManager.switch fails: the previously active backend stays active
SwitchFailed(mm, before) == mm

SwitchFailedResp(cls, msg) ==
    TextResp(<<"Switch model failed: ", cls, " - ">> \o msg, 500)

\* ModelManager.switch fails with UnknownBackend for a name that is not registered
SwitchUnknown(name) == name \notin ModelNames

\* ModelManager.__call__: one synchronous inference on the active backend
ActiveBackend(mm) == mm.model

\* ------------------------------------------------------------------ actions

Start(w) == th[w].pc \in {"idle", "done"}

Put(w, t) == th' = [th EXCEPT ![w] = t]

\* process(), lines 230-236: decode the image and the mask
InpaintReceive(w, in) ==
    /\ Start(w)
    /\ \E image \in in.images, mask \in in.masks, has_alpha \in in.alphas,
          what \in in.whats, infos \in in.infos :
         LET alpha == DecodedAlpha(image, has_alpha)
         IN  Put(w, [Blank EXCEPT !.pc = "decoded", !.kind = "inpaint",
                                  !.image = image, !.mask = mask,
                                  !.what = what, !.alpha = alpha, !.infos = infos,
                                  !.upload = [alpha |-> alpha, infos |-> infos]])
    /\ UNCHANGED <<global_config, is_mac, model_manager, last_switch>>

\* process(), lines 238-242
InpaintReject(w) ==
    /\ th[w].pc = "decoded"
    /\ ShapeMismatch(th[w].image, th[w].mask)
    /\ Put(w, [th[w] EXCEPT !.pc = "done",
                            !.resp = ShapeMismatchResp(th[w].image, th[w].mask)])
    /\ UNCHANGED <<global_config, is_mac, model_manager, last_switch>>

\* process(), lines 244-300: size limit, configuration, seed
InpaintConfig(w, in) ==
    /\ th[w].pc = "decoded"
    /\ ~ShapeMismatch(th[w].image, th[w].mask)
    /\ \E raw \in in.seeds, rnd \in in.rands :
         LET t == [th[w] EXCEPT !.original_shape = th[w].image,
                                !.size_limit = SizeLimit(th[w].image),
                                !.seed_raw = raw]
         IN  IF ValidInt(raw)
             THEN Put(w, [t EXCEPT !.pc = "configured",
                                   !.seed_in = ParseInt(raw),
                                   !.sd_seed = ResolveSeed(ParseInt(raw), rnd)])
             ELSE Put(w, Escaped(t, [cls |-> "ValidationError",
                                     msg |-> <<"sd_seed">>]))
    /\ UNCHANGED <<global_config, is_mac, model_manager, last_switch>>

\* process(), lines 302-305
InpaintNormalize(w) ==
    /\ th[w].pc = "configured"
    /\ Put(w, [th[w] EXCEPT
                 !.pc = "normalized",
                 !.image = ResizeMaxSize(th[w].image, th[w].size_limit),
                 !.mask = ResizeMaxSize(th[w].mask, th[w].size_limit)])
    /\ UNCHANGED <<global_config, is_mac, model_manager, last_switch>>

\* process(), line 309: the call enters the model manager
InpaintCall(w) ==
    /\ th[w].pc = "normalized"
    /\ Put(w, [th[w] EXCEPT
                 !.pc = "inferring",
                 !.invoked = @ + 1,
                 !.backend = ActiveBackend(model_manager),
                 !.arg = [image |-> th[w].image, mask |-> th[w].mask,
                          seed |-> th[w].sd_seed]])
    /\ UNCHANGED <<global_config, is_mac, model_manager, last_switch>>

\* process(), lines 309-321: the call returns or raises
InpaintInferred(w, in) ==
    /\ th[w].pc = "inferring"
    /\ \E out \in in.outcomes, n \in 0..in.steps :
         Put(w, ProcessTry([th[w] EXCEPT !.events = Progress(n)], out, is_mac))
    /\ UNCHANGED <<global_config, is_mac, model_manager, last_switch>>

\* process(), lines 323-331
InpaintCompose(w) ==
    /\ th[w].pc = "inferred"
    /\ LET buf == Compose(th[w].res, th[w].alpha)
       IN  Put(w, [th[w] EXCEPT !.pc = "composed", !.composed = buf,
                                !.alpha = buf.alpha])
    /\ UNCHANGED <<global_config, is_mac, model_manager, last_switch>>

\* process(), lines 333-342
InpaintEncode(w) ==
    /\ th[w].pc = "composed"
    /\ Put(w, [th[w] EXCEPT
                 !.pc = "encoded",
                 !.enc = ProcessEncode(th[w], global_config.image_quality)])
    /\ UNCHANGED <<global_config, is_mac, model_manager, last_switch>>

\* process(), lines 344-354
InpaintRespond(w) ==
    /\ th[w].pc = "encoded"
    /\ Put(w, [th[w] EXCEPT !.pc = "done", !.resp = ProcessResponse(th[w]),
                            !.events = EmitFinish(@)])
    /\ UNCHANGED <<global_config, is_mac, model_manager, last_switch>>

\* run_plugin(), lines 359-368: look the plugin up, decode the image
RunPluginReceive(w, in) ==
    /\ Start(w)
    /\ \E name \in in.pnames, image \in in.images, has_alpha \in in.alphas,
          what \in in.whats, infos \in in.infos :
         LET t == [Blank EXCEPT !.kind = "plugin", !.name = name]
             alpha == DecodedAlpha(image, has_alpha)
         IN  IF PluginMissing(name, global_config.plugins)
             THEN Put(w, Returned(t, TextResp(<<"Plugin not found">>, 500)))
             ELSE Put(w, [t EXCEPT !.pc = "p_decoded", !.image = image,
                                   !.what = what, !.alpha = alpha, !.infos = infos,
                                   !.upload = [alpha |-> alpha, infos |-> infos]])
    /\ UNCHANGED <<global_config, is_mac, model_manager, last_switch>>

\* run_plugin(), lines 370-376: the call enters the plugin
RunPluginCall(w) ==
    /\ th[w].pc = "p_decoded"
    /\ Put(w, [th[w] EXCEPT !.pc = "p_running", !.invoked = @ + 1])
    /\ UNCHANGED <<global_config, is_mac, model_manager, last_switch>>

\* run_plugin(), lines 376-387: the plugin returns or raises
RunPluginInferred(w, in) ==
    /\ th[w].pc = "p_running"
    /\ \E out \in in.outcomes : Put(w, RunPluginTry(th[w], out))
    /\ UNCHANGED <<global_config, is_mac, model_manager, last_switch>>

\* run_plugin(), lines 389-425
RunPluginRespond(w) ==
    /\ th[w].pc = "p_inferred"
    /\ LET enc == RunPluginEncode(th[w], global_config.image_quality)
           t == [th[w] EXCEPT !.composed = enc.buf, !.enc = enc,
                              !.alpha = IF enc.buf.alpha = NoAlpha THEN @
                                        ELSE enc.buf.alpha]
       IN  Put(w, [t EXCEPT !.pc = "done", !.resp = RunPluginResponse(t)])
    /\ UNCHANGED <<global_config, is_mac, model_manager, last_switch>>

\* save_image(), lines 145-177
SaveImage(w, in) ==
    /\ Start(w)
    /\ \E filename \in in.filenames, image \in in.images, has_alpha \in in.alphas,
          infos \in in.infos, ok \in BOOLEAN :
         LET alpha == DecodedAlpha(image, has_alpha)
             t == [Blank EXCEPT !.kind = "save"]
             u == [t EXCEPT !.filename = filename, !.image = image,
                            !.alpha = alpha, !.infos = infos,
                            !.upload = [alpha |-> alpha, infos |-> infos]]
         IN  IF SaveDisabled(global_config)
             THEN Put(w, Returned(t, TextResp(<<"--output-dir is None">>, 500)))
             ELSE Put(w, SaveImageBody(u, global_config, ok))
    /\ UNCHANGED <<global_config, is_mac, model_manager, last_switch>>

Switched(t, resp) == [status |-> resp.status, before |-> t.before]

\* switch_model(), lines 455-464
SwitchRequest(w, in) ==
    /\ Start(w)
    /\ \E new_name \in in.mnames :
         LET t == [Blank EXCEPT !.kind = "switch", !.name = new_name,
                                !.before = model_manager]
             disabled == TextResp(<<"Switch model is disabled">>, 400)
             same == TextResp(<<"Same model">>, 200)
         IN  IF SwitchDisabled(global_config)
             THEN Put(w, Returned(t, disabled)) /\ last_switch' = Switched(t, disabled)
             ELSE IF new_name = model_manager.name
             THEN Put(w, Returned(t, same)) /\ last_switch' = Switched(t, same)
             ELSE /\ Put(w, [t EXCEPT !.pc = "sw_called", !.invoked = @ + 1])
                  /\ UNCHANGED last_switch
    /\ UNCHANGED <<global_config, is_mac, model_manager>>

\* switch_model(), lines 463-469: ModelManager.switch raises for an unregistered
\* name, which the handler catches; otherwise construction of the replacement
\* begins
SwitchBegin(w) ==
    /\ th[w].pc = "sw_called"
    /\ IF SwitchUnknown(th[w].name)
       THEN LET e == [cls |-> "UnknownBackend", msg |-> <<th[w].name>>]
                r == SwitchFailedResp(e.cls, e.msg)
            IN  /\ Put(w, Returned([th[w] EXCEPT !.exc = e], r))
                /\ last_switch' = Switched(th[w], r)
                /\ model_manager' = SwitchFailed(model_manager, th[w].before)
       ELSE LET new == [name |-> th[w].name, built |-> FALSE]
            IN  /\ Put(w, [th[w] EXCEPT !.pc = "sw_building", !.new = new])
                /\ model_manager' = SwitchConstructing(model_manager, new)
                /\ UNCHANGED last_switch
    /\ UNCHANGED <<global_config, is_mac>>

\* switch_model(), lines 463-469: construction of the replacement ends, built
\* or failed; the handler catches the failure
SwitchBuild(w) ==
    /\ th[w].pc = "sw_building"
    /\ \/ /\ Put(w, [th[w] EXCEPT !.pc = "sw_built", !.new.built = TRUE])
          /\ UNCHANGED <<model_manager, last_switch>>
       \/ \E m \in {<<"CUDA out of memory", ". ">>, <<"boom">>} :
            LET e == [cls |-> "RuntimeError", msg |-> m]
                r == SwitchFailedResp(e.cls, e.msg)
            IN  /\ Put(w, Returned([th[w] EXCEPT !.exc = e], r))
                /\ last_switch' = Switched(th[w], r)
                /\ model_manager' = SwitchFailed(model_manager, th[w].before)
    /\ UNCHANGED <<global_config, is_mac>>

\* switch_model(), lines 464 and 470: ModelManager.switch publishes the
\* replacement and returns
SwitchPublish(w) ==
    /\ th[w].pc = "sw_built"
    /\ model_manager' = SwitchPublished(model_manager, th[w].new)
    /\ LET r == TextResp(<<"ok, switch to ", th[w].name>>, 200)
       IN  Put(w, Returned(th[w], r)) /\ last_switch' = Switched(th[w], r)
    /\ UNCHANGED <<global_config, is_mac>>

\* ------------------------------------------------------------ specifications

PluginConfigs == {{}, {"InteractiveSeg", "RealESRGAN"}, PluginNames}

Loaded(name) ==
    [name |-> name, current_model |-> name, model |-> [name |-> name, built |-> TRUE]]

\* start(): the configuration is fixed, the model manager holds the model
\* named on the command line, no request is in flight
Init ==
    /\ global_config \in [disable_model_switch : BOOLEAN, plugins : PluginConfigs,
                          output_dir : {NoPath}, image_quality : {ImageQuality}]
    /\ is_mac \in BOOLEAN
    /\ model_manager \in {Loaded(n) : n \in ModelNames}
    /\ th = [w \in Threads |-> Blank]
    /\ last_switch = [status |-> 0, before |-> NoMM]

Step(w, in) ==
    \/ InpaintReceive(w, in)
    \/ InpaintReject(w)
    \/ InpaintConfig(w, in)
    \/ InpaintNormalize(w)
    \/ InpaintCall(w)
    \/ InpaintInferred(w, in)
    \/ InpaintCompose(w)
    \/ InpaintEncode(w)
    \/ InpaintRespond(w)
    \/ RunPluginReceive(w, in)
    \/ RunPluginCall(w)
    \/ RunPluginInferred(w, in)
    \/ RunPluginRespond(w)
    \/ SaveImage(w, in)
    \/ SwitchRequest(w, in)
    \/ SwitchBegin(w)
    \/ SwitchBuild(w)
    \/ SwitchPublish(w)

\* one request at a time, every input
Next == Step(1, FullIn)

Spec == Init /\ [][Next]_vars

\* thread-per-request (SocketIO async_mode="threading"): handler threads
\* interleave at every step; one input of each kind
SmallIn ==
    [images |-> {<<2, 2, 3>>}, masks |-> {<<2, 2>>, <<2, MaxDim>>},
     seeds |-> {<<"4", "2">>}, rands |-> {RandLo},
     outcomes |-> {[kind |-> "ok", scale |-> 1, exc |-> NoExc],
                   [kind |-> "raise", scale |-> 1,
                    exc |-> [cls |-> "RuntimeError", msg |-> <<"boom">>]]},
     pnames |-> {"RemoveBG"},
     mnames |-> ModelNames \cup {"badmodel"},
     alphas |-> {TRUE}, whats |-> {"png"}, infos |-> {"exif"}, steps |-> 0,
     filenames |-> {[abs |-> FALSE, parts |-> <<"a">>]}]

StepConc(w) ==
    \/ InpaintReceive(w, SmallIn)
    \/ InpaintReject(w)
    \/ InpaintConfig(w, SmallIn)
    \/ InpaintNormalize(w)
    \/ InpaintCall(w)
    \/ InpaintInferred(w, SmallIn)
    \/ InpaintCompose(w)
    \/ InpaintEncode(w)
    \/ InpaintRespond(w)
    \/ SwitchRequest(w, SmallIn)
    \/ SwitchBegin(w)
    \/ SwitchBuild(w)
    \/ SwitchPublish(w)

NextConc == \E w \in Threads : StepConc(w)

SpecConc == Init /\ [][NextConc]_vars

\* the image paths in full: every upload format, alpha channel and metadata,
\* every plugin and file name, progress events, an output directory or none;
\* one seed and one failure of each kind
MediaIn ==
    [images |-> {<<2, 2, 3>>, <<MaxDim, 2, 3>>},
     masks |-> {<<2, 2>>, <<MaxDim, 2>>},
     seeds |-> {<<"4", "2">>}, rands |-> {RandLo},
     outcomes |->
        {[kind |-> "ok", scale |-> k, exc |-> NoExc] : k \in {1, 2}}
        \cup {[kind |-> "raise", scale |-> 1, exc |-> e] :
                e \in {[cls |-> "RuntimeError", msg |-> <<"CUDA out of memory", ". ">>],
                       [cls |-> "RuntimeError", msg |-> <<"boom">>],
                       [cls |-> "ValueError", msg |-> <<"boom">>]}},
     pnames |-> PluginNames \cup {"nosuch"},
     mnames |-> {"sd15"},
     alphas |-> BOOLEAN, whats |-> Sniffs, infos |-> Infos, steps |-> MaxSteps,
     filenames |-> Filenames]

InitMedia ==
    /\ global_config \in [disable_model_switch : {FALSE}, plugins : PluginConfigs,
                          output_dir : {NoPath, OutDir}, image_quality : {ImageQuality}]
    /\ is_mac = FALSE
    /\ model_manager = Loaded("lama")
    /\ th = [w \in Threads |-> Blank]
    /\ last_switch = [status |-> 0, before |-> NoMM]

NextMedia == Step(1, MediaIn)

SpecMedia == InitMedia /\ [][NextMedia]_vars

\* ------------------------------------------------------------------ claims

Inpaints == {w \in Threads : th[w].kind = "inpaint"}

Plugins == {w \in Threads : th[w].kind = "plugin"}

Switches == {w \in Threads : th[w].kind = "switch"}

\* the request's image and mask differ in height or in width
DimsDiffer(t) ==
    /\ t.image # <<>>
    /\ t.mask # <<>>
    /\ (t.image[1] # t.mask[1] \/ t.image[2] # t.mask[2])

\* C1: an /inpaint request whose decoded image and mask differ in height or
\* width is answered with status 400; the backend is never invoked for it and
\* no later stage (configuration and seed, normalization, inference, memory
\* reclamation, encoding) runs.
C1_MismatchRejected ==
    \A w \in Inpaints :
        DimsDiffer(th[w]) =>
            /\ th[w].pc \in {"decoded", "done"}
            /\ th[w].invoked = 0
            /\ th[w].gc = 0
            /\ th[w].original_shape = <<>>
            /\ th[w].seed_raw = <<>>
            /\ th[w].backend = NoModel
            /\ th[w].res = <<>>
            /\ th[w].pc = "done" =>
                 /\ th[w].resp.status = 400
                 /\ th[w].resp.seed = <<>>
                 /\ th[w].resp.shape = <<>>

C1_Witness ==
    \E w \in Inpaints :
        /\ DimsDiffer(th[w])
        /\ th[w].image[1] = th[w].mask[1]
        /\ th[w].pc = "done"
        /\ th[w].resp.status = 400

\* C2: once an /inpaint request has started the backend call and left the
\* inference stage, torch_gc has run for it, whether the call returned,
\* raised an out-of-memory RuntimeError, another RuntimeError, or an exception
\* that is not a RuntimeError.
C2_InpaintAlwaysReclaims ==
    \A w \in Inpaints :
        (th[w].invoked >= 1 /\ th[w].pc # "inferring") => th[w].gc >= 1

C2_Witness ==
    \E w \in Inpaints :
        /\ th[w].pc = "done"
        /\ th[w].invoked = 1
        /\ th[w].escaped
        /\ th[w].exc.cls = "ValueError"
        /\ th[w].gc = 1

\* C3: once a /run_plugin request has invoked its plugin and the call is
\* over, torch_gc has run for it, on success and on every kind of failure.
C3_PluginAlwaysReclaims ==
    \A w \in Plugins :
        (th[w].invoked >= 1 /\ th[w].pc # "p_running") => th[w].gc >= 1

\* the out-of-memory condition of a backend call, as the handlers designate it
OutOfMemory(e, kind, mac) ==
    /\ IsRuntimeError(e.cls)
    /\ \/ Contains(<<"CUDA out of memory", ". ">>, e.msg)
       \/ kind = "inpaint" /\ mac /\ Contains(<<"Invalid buffer size">>, e.msg)

BackendFailures == {[cls |-> c, msg |-> m] : c \in ExcClasses, m \in Msgs}

\* the responses given to out-of-memory failures on an endpoint
OutOfMemoryResps(kind) ==
    {IF kind = "inpaint" THEN ProcessExcept(e, is_mac) ELSE RunPluginExcept(e) :
        e \in {x \in BackendFailures : OutOfMemory(x, kind, is_mac)}}

\* a request whose backend or plugin call failed with a failure that is not
\* the out-of-memory condition
GenericFailure(t) ==
    /\ t.kind \in {"inpaint", "plugin"}
    /\ t.pc = "done"
    /\ t.invoked >= 1
    /\ t.exc # NoExc
    /\ ~OutOfMemory(t.exc, t.kind, is_mac)

\* C4: the response to a generic backend failure on /inpaint or /run_plugin,
\* whatever the failure's message, differs in status or body from every
\* response given to an out-of-memory failure.
C4_OutOfMemoryDistinct ==
    \A w \in Threads :
        (GenericFailure(th[w]) /\ ~th[w].escaped) =>
            th[w].resp \notin OutOfMemoryResps(th[w].kind)

\* C5: every backend or plugin exception that is not the out-of-memory
\* condition is caught by the handler and answered with a plain-text status-500
\* response whose body is str(e); none escapes the handler.
C5_GenericCaught ==
    \A w \in Threads :
        GenericFailure(th[w]) =>
            /\ ~th[w].escaped
            /\ th[w].resp = TextResp(th[w].exc.msg, 500)

\* C6: for an /inpaint request that reaches the backend, the seed handed to
\* the backend is the submitted (parsed) seed exactly when that is not -1 and
\* lies in [1, 99999999] when it is -1; a successful response reports exactly
\* that seed in X-Seed.
C6_SeedResolved ==
    \A w \in Inpaints :
        th[w].invoked >= 1 /\ th[w].pc \in {"inferring", "inferred", "done"}
          /\ th[w].exc = NoExc =>
            /\ (th[w].arg.seed = th[w].seed_in) <=> (th[w].seed_in # -1)
            /\ th[w].seed_in = -1 => th[w].arg.seed \in RandLo..RandHi
            /\ th[w].pc = "done" =>
                 /\ th[w].resp.status = 200
                 /\ ValidInt(th[w].resp.seed)
                 /\ ParseInt(th[w].resp.seed) = th[w].arg.seed

C6_Witness ==
    \E w \in Inpaints :
        /\ th[w].pc = "done"
        /\ th[w].resp.status = 200
        /\ th[w].seed_raw = <<"-", "0", "1">>
        /\ th[w].resp.seed = IntStr(RandHi)

\* C7: after a POST /model request that failed with 500, the model manager is
\* as it was before the request: GET /model reports the same name and a
\* subsequent /inpaint call runs on the backend that was active before.
C7_FailedSwitchKeepsBackend ==
    last_switch.status = 500 =>
        /\ model_manager = last_switch.before
        /\ model_manager.model.built
        /\ CurrentModelResp(model_manager) = TextResp(<<last_switch.before.name>>, 200)
        /\ \A w \in Inpaints :
             th[w].pc = "inferring" => th[w].backend = last_switch.before.model

C7_Witness ==
    /\ last_switch.status = 500
    /\ \E w \in Inpaints :
         th[w].pc = "inferring" /\ th[w].backend = last_switch.before.model

\* C8: with handler threads interleaving at every step, every /inpaint
\* inference call runs on a fully constructed backend, whatever POST /model
\* requests are in progress.
C8_NoHalfConstructedBackend ==
    \A w \in Inpaints :
        th[w].pc = "inferring" =>
            /\ th[w].backend.built
            /\ th[w].backend.name \in ModelNames

C8_Witness ==
    \E w \in Inpaints, v \in Switches :
        /\ th[w].pc = "inferring"
        /\ th[v].pc = "sw_building"
        /\ th[w].backend.name # th[v].name

\* C9: with model switching disabled, every POST /model request is answered
\* with status 400 without calling the model manager's switch, for every
\* requested name, and the model manager stays as it was.
C9_DisabledSwitchRejected ==
    global_config.disable_model_switch =>
        \A w \in Switches :
            /\ th[w].pc = "done"
            /\ th[w].invoked = 0
            /\ th[w].resp.status = 400
            /\ model_manager = th[w].before

C9_Witness ==
    \E w \in Switches :
        /\ global_config.disable_model_switch
        /\ th[w].pc = "done"
        /\ th[w].resp.status = 400
        /\ th[w].name \in ModelNames
        /\ th[w].name # model_manager.name

\* C10: for an /inpaint request with matching dimensions the size limit is at
\* least max(height, width), normalization leaves image and mask at the
\* decoded size, the backend receives them at that size, and when the backend
\* preserves size the output has the decoded image's height and width.
C10_NeverRescaled ==
    \A w \in Inpaints :
        th[w].pc \in {"normalized", "inferring", "inferred"}
          \/ (th[w].pc = "done" /\ th[w].resp.status = 200) =>
            /\ th[w].size_limit >= Max2(th[w].original_shape[1], th[w].original_shape[2])
            /\ th[w].image = th[w].original_shape
            /\ th[w].mask = Shape2(th[w].original_shape)
            /\ th[w].invoked >= 1 =>
                 /\ th[w].arg.image = th[w].original_shape
                 /\ Shape2(th[w].arg.image) = th[w].arg.mask
            /\ (th[w].pc = "done" /\ Shape2(th[w].res) = Shape2(th[w].arg.image)) =>
                 Shape2(th[w].resp.shape) = Shape2(th[w].original_shape)

C10_Witness ==
    \E w \in Inpaints :
        /\ th[w].pc = "done"
        /\ th[w].resp.status = 200
        /\ th[w].original_shape = <<MaxDim, 2, 3>>
        /\ Shape2(th[w].resp.shape) = <<MaxDim, 2>>

\* ----------------------------------------------------- claims on the image

Saves == {w \in Threads : th[w].kind = "save"}

Succeeded(t) == t.pc = "done" /\ t.resp.status = 200

\* buf is the output res with the upload's alpha channel put back: present
\* exactly when the upload had one, of the output's height and width, and the
\* decoded channel itself when the output kept the decoded size
AlphaRecombined(buf, res, upload) ==
    /\ (buf.alpha # NoAlpha) <=> (upload.alpha # NoAlpha)
    /\ buf.shape = <<res[1], res[2], IF upload.alpha # NoAlpha THEN 4 ELSE 3>>
    /\ upload.alpha # NoAlpha =>
         /\ buf.alpha.shape = Shape2(res)
         /\ buf.alpha.resized <=> (upload.alpha.shape # Shape2(res))
         /\ upload.alpha.shape = Shape2(res) => buf.alpha = upload.alpha

\* C11: the image a successful /inpaint request answers with has an alpha
\* channel exactly when the upload had one; the channel has the height and
\* width of the backend's output, and is the decoded channel unchanged when
\* the output has the decoded size (resized only when the sizes differ)
C11_AlphaRoundTrip ==
    \A w \in Inpaints :
        Succeeded(th[w]) =>
            /\ AlphaRecombined(th[w].enc.buf, th[w].res, th[w].upload)
            /\ th[w].resp.shape = th[w].enc.buf.shape

C11_Witness ==
    \E w \in Inpaints :
        /\ Succeeded(th[w])
        /\ th[w].upload.alpha # NoAlpha
        /\ th[w].upload.alpha.shape # Shape2(th[w].res)
        /\ th[w].enc.buf.alpha.resized

NoAlphaPlugins == {"InteractiveSeg", "RemoveBG", "AnimeSeg"}

\* C12 as stated: after every successful /run_plugin request, whatever the
\* plugin, the encoded image is the plugin's output with the upload's alpha
\* channel put back (resized when the sizes differ), or the output unchanged
\* when the upload had none
C12_PluginAlphaEveryName ==
    \A w \in Plugins :
        Succeeded(th[w]) =>
            AlphaRecombined(th[w].enc.buf, th[w].res, th[w].upload)

\* C12: after a successful /run_plugin request of a plugin other than
\* InteractiveSeg, RemoveBG and AnimeSeg the encoded image is the plugin's
\* output with the upload's alpha channel put back as after /inpaint; the
\* output of these three plugins is encoded as the plugin returned it, without
\* the upload's alpha channel
C12_PluginAlpha ==
    \A w \in Plugins :
        Succeeded(th[w]) =>
            IF th[w].name \in NoAlphaPlugins
            THEN th[w].enc.buf = [shape |-> th[w].res, alpha |-> NoAlpha]
            ELSE AlphaRecombined(th[w].enc.buf, th[w].res, th[w].upload)

C12_Witness ==
    \E w \in Plugins :
        /\ Succeeded(th[w])
        /\ th[w].name = "RealESRGAN"
        /\ th[w].upload.alpha # NoAlpha
        /\ th[w].enc.buf.alpha.resized

\* the format sniffed from the upload, jpeg when there is none
SniffedFormat(t) == IF t.what \in Sniffs \ {"None"} THEN t.what ELSE "jpeg"

\* C13: the Content-Type of a successful /inpaint response, and of a
\* /run_plugin response of a plugin that is not segmentation-style, is image/
\* followed by the format sniffed from the upload, jpeg when sniffing finds
\* none; for InteractiveSeg, RemoveBG and AnimeSeg it is image/png whatever
\* the upload was
C13_ContentType ==
    /\ \A w \in Inpaints :
          Succeeded(th[w]) => th[w].resp.mime = <<"image/", SniffedFormat(th[w])>>
    /\ \A w \in Plugins :
          Succeeded(th[w]) =>
              th[w].resp.mime =
                  IF th[w].name \in NoAlphaPlugins
                  THEN <<"image/", "png">>
                  ELSE <<"image/", SniffedFormat(th[w])>>

C13_Witness ==
    \E w \in Inpaints :
        /\ Succeeded(th[w])
        /\ th[w].what = "None"
        /\ th[w].resp.mime = <<"image/", "jpeg">>

C13_WitnessPlugin ==
    \E w \in Plugins :
        /\ Succeeded(th[w])
        /\ th[w].name = "RemoveBG"
        /\ th[w].what = "webp"
        /\ th[w].resp.mime = <<"image/", "png">>

\* the positions of the completion marker among a request's events
Finishes(events) == {i \in DOMAIN events : events[i].ev = "diffusion_finish"}

\* C14: an /inpaint request has emitted exactly one diffusion_finish when it
\* has responded and none before or when it ended in an error; the marker
\* follows the return of the request's backend call and every
\* diffusion_progress event of the request
C14_FinishOnce ==
    \A w \in Inpaints :
        LET t == th[w]
        IN  /\ Cardinality(Finishes(t.events)) = IF Succeeded(t) THEN 1 ELSE 0
            /\ Finishes(t.events) \subseteq {Len(t.events)}
            /\ Finishes(t.events) # {} => t.invoked = 1 /\ t.res # <<>>
            /\ \A i \in DOMAIN t.events :
                  t.events[i].ev = "diffusion_progress" => t.invoked = 1

C14_Witness ==
    \E w \in Inpaints :
        /\ Succeeded(th[w])
        /\ Len(th[w].events) > 1
        /\ th[w].events[1].ev = "diffusion_progress"
        /\ th[w].events[Len(th[w].events)].ev = "diffusion_finish"

C14_WitnessError ==
    \E w \in Inpaints :
        /\ th[w].pc = "done"
        /\ th[w].resp.status = 500
        /\ Len(th[w].events) > 0
        /\ Finishes(th[w].events) = {}

\* the file p lies below the directory dir
Under(p, dir) ==
    /\ p.abs = dir.abs
    /\ Len(p.parts) > Len(dir.parts)
    /\ SubSeq(p.parts, 1, Len(dir.parts)) = dir.parts

\* C15: every file /save_image writes lies under the configured output
\* directory, whatever the file name; without an output directory the handler
\* answers 500 and writes no file
C15_SavedUnderOutputDir ==
    \A w \in Saves :
        /\ th[w].wrote # NoPath => Under(th[w].wrote, global_config.output_dir)
        /\ (th[w].pc = "done" /\ global_config.output_dir = NoPath) =>
              th[w].resp.status = 500 /\ th[w].wrote = NoPath

\* the part of C15 the handler keeps: no output directory, no file
C15_NoDirNoFile ==
    \A w \in Saves :
        (th[w].pc = "done" /\ global_config.output_dir = NoPath) =>
            th[w].resp.status = 500 /\ th[w].wrote = NoPath

\* C16: a /run_plugin request naming a plugin that is not in the mapping is
\* answered 500 and invokes no plugin, and no step of any handler changes the
\* mapping
C16_UnknownPlugin ==
    /\ [](\A w \in Plugins :
            (th[w].pc # "idle" /\ th[w].name \notin global_config.plugins) =>
                /\ th[w].pc = "done"
                /\ th[w].resp.status = 500
                /\ th[w].invoked = 0)
    /\ [][global_config'.plugins = global_config.plugins]_vars

C16_Witness ==
    \E w \in Plugins :
        /\ th[w].pc = "done"
        /\ th[w].name \notin global_config.plugins
        /\ th[w].resp.status = 500
        /\ th[w].invoked = 0

\* C17: one request invokes the backend, or the plugin, at most once, also
\* when the call fails; a request that succeeded has made exactly one call
C17_NoRetry ==
    \A w \in Inpaints \cup Plugins :
        /\ th[w].invoked <= 1
        /\ Succeeded(th[w]) => th[w].invoked = 1

C17_Witness ==
    \E w \in Inpaints :
        /\ th[w].pc = "done"
        /\ OutOfMemory(th[w].exc, "inpaint", is_mac)
        /\ th[w].invoked = 1

C17_WitnessPlugin ==
    \E w \in Plugins :
        /\ th[w].pc = "done"
        /\ th[w].exc # NoExc
        /\ th[w].invoked = 1

\* the request has left the pipeline with an error
Errored(t) == t.exc # NoExc \/ t.escaped \/ t.resp.status \notin {0, 200}

\* the stages of section 4.6, numbered in their order; 8 is Errored
Stage(t) ==
    IF Errored(t) THEN 8
    ELSE CASE t.pc = "idle" -> 0
           [] t.pc = "decoded" -> 1
           [] t.pc = "configured" -> 2
           [] t.pc \in {"normalized", "inferring"} -> 3
           [] t.pc = "inferred" -> 4
           [] t.pc = "composed" -> 5
           [] t.pc = "encoded" -> 6
           [] t.pc = "done" -> 7

\* one step of an /inpaint request: a request begins as Received, and a
\* request under way stays in its stage, moves to the next one or to Errored
StageStep(t, u) ==
    IF t.pc \in {"idle", "done"}
    THEN u.kind = "inpaint" /\ u.pc # t.pc => Stage(u) = 1
    ELSE t.kind = "inpaint" =>
            /\ u.kind = "inpaint"
            /\ Stage(u) \in {Stage(t), Stage(t) + 1, 8}

\* C18: an /inpaint request goes through Received, Validated, Normalized,
\* Inferred, Composed, Encoded, Responded in this order, and a request that
\* is Errored is over: nothing was composed or encoded for it, it carries no
\* X-Seed and has emitted no completion marker; only reclamation has run
C18_StageOrder ==
    /\ [](\A w \in Inpaints :
            Errored(th[w]) =>
                /\ th[w].pc = "done"
                /\ th[w].composed = NoBuf
                /\ th[w].enc = NoEnc
                /\ th[w].resp.seed = <<>>
                /\ Finishes(th[w].events) = {})
    /\ [][\A w \in Threads : StageStep(th[w], th'[w])]_vars

C18_Witness ==
    \E w \in Inpaints :
        /\ Errored(th[w])
        /\ th[w].exc # NoExc
        /\ th[w].gc = 1

C18_WitnessResponded ==
    \E w \in Inpaints : Stage(th[w]) = 7 /\ th[w].resp.seed # <<>>

\* C19 as stated: on every successful path of /inpaint, /run_plugin and
\* /save_image the metadata read from the upload is unchanged and is what the
\* encoder is given
C19_InfosEveryPath ==
    \A w \in Inpaints \cup Plugins \cup Saves :
        Succeeded(th[w]) =>
            /\ th[w].infos = th[w].upload.infos
            /\ th[w].enc.infos = th[w].upload.infos

\* C19: the metadata read from the upload is unchanged during processing, and
\* is what the encoder is given on every successful path of /inpaint,
\* /save_image and /run_plugin except InteractiveSeg, whose mask is encoded
\* by numpy_to_bytes without metadata
C19_InfosVerbatim ==
    \A w \in Inpaints \cup Plugins \cup Saves :
        Succeeded(th[w]) =>
            /\ th[w].infos = th[w].upload.infos
            /\ IF th[w].kind = "plugin" /\ th[w].name = "InteractiveSeg"
               THEN th[w].enc.via = "numpy_to_bytes" /\ th[w].enc.infos = "none"
               ELSE /\ th[w].enc.via = "pil_to_bytes"
                    /\ th[w].enc.infos = th[w].upload.infos

C19_Witness ==
    \E w \in Inpaints :
        /\ Succeeded(th[w])
        /\ th[w].upload.infos = "icc"
        /\ th[w].enc.infos = "icc"

C19_WitnessSave ==
    \E w \in Saves :
        /\ Succeeded(th[w])
        /\ th[w].upload.infos = "icc"
        /\ th[w].enc.infos = "icc"

====
